---- MODULE Spec2Model ----
(***************************************************************************)
(* A model of the asset packager of lib/asset_packager.js: the per-path    *)
(* source asset cache (getSourceAsset), the dependency closure walk        *)
(* (_expandDependencies / SimpleMergeLinker), the memoized build pipeline  *)
(* (build), write and invalidate.                                          *)
(*                                                                         *)
(* JavaScript runs one callback at a time.  The synchronous continuation   *)
(* of the callback that is running is the task stack runq: a task is a     *)
(* call that has been made and not yet executed, its head is executed      *)
(* next, and the calls it makes are pushed in front of the rest.  Events   *)
(* from outside (API calls of the user, completions of file reads and      *)
(* writes) happen only when runq is empty.                                 *)
(***************************************************************************)
EXTENDS Integers, Sequences, FiniteSets, TLC

\* ---------------------------------------------------------------- bounds
MaxCalls == 2
MaxInvalidate == 1
MaxEdits == 1

\* ------------------------------------------------------ the file system
\* Absolute paths of the files of the project.
Paths == {"/a.js", "/b.js", "/c.js", "/d.js", "/x.css"}

\* PATH.extname
PATH_extname(p) == IF p = "/x.css" THEN ".css" ELSE ".js"

\* PATH.resolve(basedir, assetPath), basedir being "/": an absolute path is
\* kept, a relative one is made absolute.
PATH_resolve(p) ==
  CASE p = "a.js" -> "/a.js"
    [] p = "./d.js" -> "/d.js"
    [] OTHER -> p

\* The paths users hand to getSourceAsset.
RawPaths == {"a.js", "/d.js", "./d.js", "/x.css"}

\* The files that are edited while the packager runs.
Editable == {"/d.js"}

\* Module identifiers and paths handed to resolve(); "./m" names no file.
ModuleIds == {"./a", "./b", "./c", "./d", "./x.css", "./m"} \cup Paths

\* The code of file p after v edits: the lines that follow its require lines.
Code(p, v) ==
  LET base == CASE p = "/a.js" -> "a"
                [] p = "/b.js" -> "b"
                [] p = "/c.js" -> "c"
                [] p = "/d.js" -> "d"
                [] OTHER -> "x"
  IN  IF v = 0 THEN base \o ";" ELSE base \o "'" \o ";"

NoDeps == [p \in Paths |-> <<>>]

\* The "//= require" lines of each file, as module identifiers.
Diamond ==
  [NoDeps EXCEPT !["/a.js"] = <<"./b", "./c">>, !["/b.js"] = <<"./d">>,
                 !["/c.js"] = <<"./d">>]
Cyclic ==
  [NoDeps EXCEPT !["/a.js"] = <<"./b">>, !["/b.js"] = <<"./a">>,
                 !["/c.js"] = <<"./c">>]
Chain == [NoDeps EXCEPT !["/a.js"] = <<"./d">>]
NeedsCss ==
  [NoDeps EXCEPT !["/a.js"] = <<"./b", "./c">>, !["/b.js"] = <<"./x.css">>]
NeedsMissing ==
  [NoDeps EXCEPT !["/a.js"] = <<"./b", "./c">>, !["/b.js"] = <<"./m">>]

VARIABLES
  cfg,            \* the configuration of the packager and the require lines
  fileVer,        \* number of edits of each file
  epoch,          \* number of invalidate() calls so far
  snap,           \* fileVer at each invalidate()
  srcH,           \* the once-handles made by getSourceAsset, one asset each
  _sourceAssets,  \* this._sourceAssets: path -> handle, 0 when absent
  bldH,           \* the once-handles made by build, one composite asset each
  _build,         \* this._build: handle, 0 when null
  runq,           \* the calls still to run in the current callback
  calls,          \* the API calls of the user and what their callbacks got
  written         \* the files written by FS.writeFile

vars ==
  <<cfg, fileVer, epoch, snap, srcH, _sourceAssets, bldH, _build, runq,
    calls, written>>

Range(s) == {s[i] : i \in 1..Len(s)}

\* The require lines of a file, one "//= require <id>" line for each module.
RECURSIVE Directives(_)
Directives(ids) ==
  IF ids = <<>> THEN ""
  ELSE "//= require " \o Head(ids) \o "\n" \o Directives(Tail(ids))

\* The text of file p after v edits, as FS.readFile hands it to the
\* compiler: its require lines, then its code.  The compiler keeps all of it
\* as the body.
Content(p, v) == Directives(cfg.requires[p]) \o Code(p, v)

\* ------------------------------------------------------- configuration
\* AssetPackager.prototype.compilers: the extensions with a compiler.
compilers == {".js"}

\* resolve(moduleId, basedir): the path of the module, "" when RESOLVE.sync
\* finds no file and throws.  Only registered extensions are appended.
resolve(id) ==
  CASE id \in Paths -> id
    [] id = "./a" /\ ".js" \in compilers -> "/a.js"
    [] id = "./b" /\ ".js" \in compilers -> "/b.js"
    [] id = "./c" /\ ".js" \in compilers -> "/c.js"
    [] id = "./d" /\ ".js" \in compilers -> "/d.js"
    [] id = "./x.css" -> "/x.css"
    [] OTHER -> ""

\* main as configured: unset, one string, or an array of strings.
Unset == [kind |-> "unset", val |-> <<>>]
Str(id) == [kind |-> "string", val |-> <<id>>]
Arr(ids) == [kind |-> "array", val |-> ids]

\* The configuration object: main, linker (set or not), minify, minifier
\* (set or not), analyzer (set or not), postprocessors (none unless given)
\* and path, with the require lines of the files and whether file reads and
\* writes may fail.
Config(main, linker, minify, minifier, analyzer, requires, ioFail) ==
  [main |-> main, linker |-> linker, minify |-> minify, minifier |-> minifier,
   analyzer |-> analyzer, requires |-> requires, ioFail |-> ioFail,
   path |-> "/app.js", postprocessors |-> <<>>]

\* A configuration with postprocessors: [p1, ..., pk].
WithPostprocessors(config, ps) == [config EXCEPT !.postprocessors = ps]

\* ------------------------------------------------------------- records
\* A callback waiting for a once-handle: of a user's call (user), of
\* write() (write), of ASYNC.map over main (root), of ASYNC.mapSeries over
\* an asset's dependencies (dep).
W(k, a, b) == [k |-> k, a |-> a, b |-> b]
NoW == W("none", 0, 0)

\* A call made and not yet run.
T(k, p, w, err, val) == [k |-> k, p |-> p, w |-> w, err |-> err, val |-> val]

\* UTILS.once: the callbacks of a settling handle are called in the order
\* they attached, each with the handle's (err, value).
OnceCallbacks(waiters, err, val) ==
  [i \in 1..Len(waiters) |-> T("cb", "", waiters[i], err, val)]

\* UTILS.once: a handle that has called back keeps its result.
OnceSettled(h) == h.st \in {"ok", "err"}

\* Whether files may fail to be read or written in this behaviour.
IoOutcomes == IF cfg.ioFail THEN {TRUE, FALSE} ELSE {TRUE}

\* A new record of calls: an API call of the user, its callback not yet run.
NewCall(op, arg) ==
  [op |-> op, arg |-> arg, epoch |-> epoch, st |-> "pending", n |-> 0,
   err |-> "none", val |-> 0]

\* The user's callback runs: it is handed (err, val).
Called(c, err, val) ==
  [calls EXCEPT ![c].st = "done", ![c].n = @ + 1, ![c].err = err,
                ![c].val = val]

\* ----------------------------------------------------- source asset cache
\* The handle getSourceAsset makes for a path, and the asset { path,
\* dependencies: [] } its function makes.  The asset is known by the index
\* of its handle.
NewSource(assetPath, st, err, waiters) ==
  [path |-> assetPath, epoch |-> epoch, st |-> st, err |-> err, body |-> "",
   ver |-> 0, deps |-> <<>>, waiters |-> waiters,
   compiled |-> (st = "compiling"), analyzed |-> FALSE]

\* A cache that coalesces nothing: an entry counts only once it has settled.
CacheHitSettled(assetPath) ==
  /\ _sourceAssets[assetPath] # 0
  /\ OnceSettled(srcH[_sourceAssets[assetPath]])

\* A cache that keeps no errors.
CacheHitUnlessFailed(assetPath) ==
  /\ _sourceAssets[assetPath] # 0
  /\ srcH[_sourceAssets[assetPath]].st # "err"

\* getSourceAsset: the test of the cache, this._sourceAssets[assetPath].
CacheHit(assetPath) == _sourceAssets[assetPath] # 0

\* getSourceAsset: the error found before anything is compiled.
SourceConfigError(assetPath) ==
  IF PATH_extname(assetPath) \notin compilers THEN "NoCompiler"
  ELSE IF ~cfg.analyzer THEN "NoAnalyzer"
  ELSE "none"

\* getSourceAsset(assetPath, done), done being the waiter of the task.
GetSourceAsset ==
  /\ runq # <<>>
  /\ Head(runq).k = "get"
  /\ LET t == Head(runq)
         assetPath == PATH_resolve(t.p)
         hit == CacheHit(assetPath)
         h == IF hit THEN _sourceAssets[assetPath] ELSE Len(srcH) + 1
         err == SourceConfigError(assetPath)
     IN  /\ _sourceAssets' = [_sourceAssets EXCEPT ![assetPath] = h]
         /\ IF ~hit /\ err # "none"
              THEN /\ srcH' = Append(srcH, NewSource(assetPath, "err", err, <<>>))
                   /\ runq' = <<T("cb", "", t.w, err, 0)>> \o Tail(runq)
            ELSE IF ~hit
              THEN /\ srcH' =
                        Append(srcH, NewSource(assetPath, "compiling", "none", <<t.w>>))
                   /\ runq' = Tail(runq)
            ELSE IF OnceSettled(srcH[h])
              THEN /\ srcH' = srcH
                   /\ runq' =
                        <<T("cb", "", t.w, srcH[h].err,
                            IF srcH[h].st = "ok" THEN h ELSE 0)>> \o Tail(runq)
            ELSE /\ srcH' = [srcH EXCEPT ![h].waiters = Append(@, t.w)]
                 /\ runq' = Tail(runq)
  /\ UNCHANGED <<cfg, fileVer, epoch, snap, bldH, _build, calls, written>>

\* JavaScriptCompiler: the callback of FS.readFile.  A failed read settles
\* the handle with the error; otherwise the body is set and the analyzer is
\* called.
JavaScriptCompiler(h) ==
  /\ runq = <<>>
  /\ srcH[h].st = "compiling"
  /\ \E ok \in IoOutcomes :
       IF ok
         THEN /\ srcH' = [srcH EXCEPT ![h].st = "analyzing",
                                      ![h].body = Content(srcH[h].path, fileVer[srcH[h].path]),
                                      ![h].ver = fileVer[srcH[h].path],
                                      ![h].analyzed = TRUE]
              /\ runq' = <<T("analyze", "", W("src", h, 0), "none", 0)>>
         ELSE /\ srcH' = [srcH EXCEPT ![h].st = "err", ![h].err = "ReadFailed",
                                      ![h].waiters = <<>>]
              /\ runq' = OnceCallbacks(srcH[h].waiters, "ReadFailed", 0)
  /\ UNCHANGED <<cfg, fileVer, epoch, snap, _sourceAssets, bldH, _build, calls,
                 written>>

\* JavaScriptAnalyzer: the require lines of the body (those of the file,
\* cfg.requires) are matched and the module of each is resolved; a module
\* that does not resolve is the error handed to done, and the dependencies
\* stay [].  The body is left as it is, require lines included.
JavaScriptAnalyzer ==
  /\ runq # <<>>
  /\ Head(runq).k = "analyze"
  /\ LET h == Head(runq).w.a
         requires == cfg.requires[srcH[h].path]
         paths == [i \in 1..Len(requires) |-> resolve(requires[i])]
         err == IF "" \in Range(paths) THEN "Unresolved" ELSE "none"
     IN  /\ srcH' = [srcH EXCEPT ![h].st = IF err = "none" THEN "ok" ELSE "err",
                                 ![h].err = err,
                                 ![h].deps = IF err = "none" THEN paths ELSE <<>>,
                                 ![h].waiters = <<>>]
         /\ runq' = OnceCallbacks(srcH[h].waiters, err,
                                  IF err = "none" THEN h ELSE 0) \o Tail(runq)
  /\ UNCHANGED <<cfg, fileVer, epoch, snap, _sourceAssets, bldH, _build, calls,
                 written>>

\* A user calls getSourceAsset(path, done).
CallGetSourceAsset(raw) ==
  /\ runq = <<>>
  /\ Len(calls) < MaxCalls
  /\ calls' = Append(calls, NewCall("get", raw))
  /\ runq' = <<T("get", raw, W("user", Len(calls) + 1, 0), "none", 0)>>
  /\ UNCHANGED <<cfg, fileVer, epoch, snap, srcH, _sourceAssets, bldH, _build,
                 written>>

\* The callback a user gave to getSourceAsset or build runs.
UserCallback ==
  /\ runq # <<>>
  /\ Head(runq).k = "cb"
  /\ Head(runq).w.k = "user"
  /\ calls' = Called(Head(runq).w.a, Head(runq).err, Head(runq).val)
  /\ runq' = Tail(runq)
  /\ UNCHANGED <<cfg, fileVer, epoch, snap, srcH, _sourceAssets, bldH, _build,
                 written>>

\* An invalidate() that also drops the callbacks waiting for the
\* computations in flight.
InvalidateCancels ==
  /\ runq = <<>>
  /\ epoch < MaxInvalidate
  /\ _sourceAssets' = [p \in Paths |-> 0]
  /\ _build' = 0
  /\ epoch' = epoch + 1
  /\ snap' = Append(snap, fileVer)
  /\ srcH' = [h \in 1..Len(srcH) |-> [srcH[h] EXCEPT !.waiters = <<>>]]
  /\ bldH' = [b \in 1..Len(bldH) |-> [bldH[b] EXCEPT !.waiters = <<>>]]
  /\ UNCHANGED <<cfg, fileVer, runq, calls, written>>

\* A reset that clears nothing.
_resetNothing ==
  /\ _sourceAssets' = _sourceAssets
  /\ _build' = _build

\* A reset that keeps the build.
_resetSourcesOnly ==
  /\ _sourceAssets' = [p \in Paths |-> 0]
  /\ _build' = _build

\* A reset that keeps the source assets.
_resetBuildOnly ==
  /\ _sourceAssets' = _sourceAssets
  /\ _build' = 0

\* _reset, called by invalidate(): both caches are replaced by empty ones.
_reset ==
  /\ _sourceAssets' = [p \in Paths |-> 0]
  /\ _build' = 0

\* A user calls invalidate().
Invalidate ==
  /\ runq = <<>>
  /\ epoch < MaxInvalidate
  /\ _reset
  /\ epoch' = epoch + 1
  /\ snap' = Append(snap, fileVer)
  /\ UNCHANGED <<cfg, fileVer, srcH, bldH, runq, calls, written>>

\* A source file is edited on disk.
EditFile(p) ==
  /\ runq = <<>>
  /\ fileVer[p] < MaxEdits
  /\ fileVer' = [fileVer EXCEPT ![p] = @ + 1]
  /\ UNCHANGED <<cfg, epoch, snap, srcH, _sourceAssets, bldH, _build, runq,
                 calls, written>>

\* ------------------------------------------------------------ the build
\* build: the err its function computes from the configuration.  The
\* function assigns it and never reads it again.
BuildConfigError ==
  IF cfg.main.kind = "unset" THEN "NoMain"
  ELSE IF ~cfg.linker THEN "NoLinker"
  ELSE IF ~cfg.minifier /\ cfg.minify THEN "NoMinifier"
  ELSE "none"

\* build: main after "if ('string' === typeof main) main = [main]".
MainList == cfg.main.val

\* The handle build makes, and the composite asset of its function, known by
\* the index of the handle.  seen, expanded and stack are the state of the
\* linker's walk: stack holds one frame for every _expandDependencies call
\* in progress: the list walked, the number of its assets that are through,
\* and the results of the mapSeries over the current asset's dependencies.
\* Kept for the record: linked and minified count the calls of the linker
\* and the minifier, gets the getSourceAsset calls made for the build, threw
\* is the exception that left its function, rootErr and depErr the first
\* error handed to ASYNC.map and to ASYNC.mapSeries, errAt the length of
\* expanded and the value of gets when mapSeries was handed it, post the
\* postprocessors that were called, in the order of the calls.
NewBuild(waiters) ==
  [epoch |-> epoch, st |-> "roots", err |-> "none", roots |-> <<>>,
   mapDone |-> FALSE, seen |-> <<>>, expanded |-> <<>>, stack |-> <<>>,
   body |-> "", waiters |-> waiters, linked |-> 0, minified |-> 0,
   threw |-> "none", gets |-> 0, rootErr |-> "none", depErr |-> "none",
   errAt |-> <<0, 0>>, post |-> <<>>]

Frame(assets) == [assets |-> assets, i |-> 0, res |-> <<>>]

\* An exception leaves the function of build b: the rest of the running
\* callback is abandoned and the callbacks of the handle are never called.
Throw(b, kind) ==
  /\ bldH' = [bldH EXCEPT ![b].threw = kind]
  /\ runq' = <<>>

\* A memo that coalesces nothing: it counts only once it has settled.
BuildHitSettled == _build # 0 /\ OnceSettled(bldH[_build])

\* build: the test of the memo, this._build.
BuildHit == _build # 0

\* build(done), done being waiter w.
BuildInvoke(w) ==
  LET b == IF BuildHit THEN _build ELSE Len(bldH) + 1
  IN  /\ _build' = b
      /\ IF ~BuildHit
           THEN /\ bldH' = Append(bldH, NewBuild(<<w>>))
                /\ runq' = <<T("map", "", W("build", b, 0), "none", 0)>>
         ELSE IF OnceSettled(bldH[b])
           THEN /\ bldH' = bldH
                /\ runq' = <<T("cb", "", w, bldH[b].err,
                              IF bldH[b].st = "ok" THEN b ELSE 0)>>
         ELSE /\ bldH' = [bldH EXCEPT ![b].waiters = Append(@, w)]
              /\ runq' = <<>>

\* A user calls build(done).
CallBuild ==
  /\ runq = <<>>
  /\ Len(calls) < MaxCalls
  /\ calls' = Append(calls, NewCall("build", ""))
  /\ BuildInvoke(W("user", Len(calls) + 1, 0))
  /\ UNCHANGED <<cfg, fileVer, epoch, snap, srcH, _sourceAssets, written>>

\* A user calls write(outputPath, done); "" is no outputPath.
CallWrite(outputPath) ==
  /\ runq = <<>>
  /\ Len(calls) < MaxCalls
  /\ calls' = Append(calls, NewCall("write", IF outputPath = "" THEN cfg.path ELSE outputPath))
  /\ BuildInvoke(W("write", Len(calls) + 1, 0))
  /\ UNCHANGED <<cfg, fileVer, epoch, snap, srcH, _sourceAssets, written>>

\* build, first function of the waterfall: ASYNC.map over main.  With main
\* undefined, ASYNC.map throws a TypeError or takes it for an empty list,
\* as the version of the library has it.
AsyncMap ==
  /\ runq # <<>>
  /\ Head(runq).k = "map"
  /\ LET b == Head(runq).w.a
     IN  IF cfg.main.kind = "unset"
           THEN \E throws \in BOOLEAN :
                  IF throws
                    THEN Throw(b, "TypeError")
                    ELSE /\ bldH' = [bldH EXCEPT ![b].mapDone = TRUE]
                         /\ runq' = <<T("link", "", W("build", b, 0), "none", 0)>>
                                       \o Tail(runq)
         ELSE IF MainList = <<>>
           THEN /\ bldH' = [bldH EXCEPT ![b].mapDone = TRUE]
                /\ runq' = <<T("link", "", W("build", b, 0), "none", 0)>>
                              \o Tail(runq)
         ELSE /\ bldH' = [bldH EXCEPT ![b].roots = [i \in 1..Len(MainList) |-> 0]]
              /\ runq' = [i \in 1..Len(MainList) |->
                            T("root", MainList[i], W("root", b, i), "none", 0)]
                            \o Tail(runq)
  /\ UNCHANGED <<cfg, fileVer, epoch, snap, srcH, _sourceAssets, _build, calls,
                 written>>

\* build, the iterator of ASYNC.map: resolve the entry of main (RESOLVE.sync
\* throws when there is no such module), then getSourceAsset.
MapIterator ==
  /\ runq # <<>>
  /\ Head(runq).k = "root"
  /\ LET t == Head(runq)
         path == resolve(t.p)
     IN  IF path = ""
           THEN Throw(t.w.a, "ResolutionError")
           ELSE /\ runq' = <<T("get", path, t.w, "none", 0)>> \o Tail(runq)
                /\ bldH' = [bldH EXCEPT ![t.w.a].gets = @ + 1]
  /\ UNCHANGED <<cfg, fileVer, epoch, snap, srcH, _sourceAssets, _build, calls,
                 written>>

\* UTILS.once: the function of build b calls done(err, asset).
SettleBuild(b, H, err) ==
  /\ bldH' = [H EXCEPT ![b].st = IF err = "none" THEN "ok" ELSE "err",
                       ![b].err = err, ![b].waiters = <<>>]
  /\ runq' = OnceCallbacks(H[b].waiters, err, IF err = "none" THEN b ELSE 0)
                \o Tail(runq)

\* A map that keeps its results in the order they arrive.
MapResultByArrival(roots, i, val) ==
  LET free == {j \in 1..Len(roots) : roots[j] = 0}
      first == CHOOSE j \in free : \A k \in free : j <= k
  IN  [roots EXCEPT ![first] = val]

\* ASYNC.map: the result of the iterator for entry i of main is kept at
\* index i of the results.
MapResult(roots, i, val) == [roots EXCEPT ![i] = val]

\* A map that calls back with the first result.
MapCompleteFirst(roots) == \E i \in 1..Len(roots) : roots[i] # 0

\* ASYNC.map: the map calls back once every entry has its result.
MapComplete(roots) == \A i \in 1..Len(roots) : roots[i] # 0

\* build: ASYNC.map is handed the source asset of a root, or its error.  The
\* first error ends the map and the waterfall; the last result starts the
\* second function of the waterfall.
RootDone ==
  /\ runq # <<>>
  /\ Head(runq).k = "cb"
  /\ Head(runq).w.k = "root"
  /\ LET t == Head(runq)
         b == t.w.a
         roots == MapResult(bldH[b].roots, t.w.b, t.val)
     IN  IF bldH[b].mapDone
           THEN /\ bldH' = bldH
                /\ runq' = Tail(runq)
         ELSE IF t.err # "none"
           THEN SettleBuild(b, [bldH EXCEPT ![b].mapDone = TRUE,
                                            ![b].rootErr = t.err], t.err)
         ELSE IF MapComplete(roots)
           THEN /\ bldH' = [bldH EXCEPT ![b].roots = roots, ![b].mapDone = TRUE]
                /\ runq' = <<T("link", "", W("build", b, 0), "none", 0)>>
                              \o Tail(runq)
         ELSE /\ bldH' = [bldH EXCEPT ![b].roots = roots]
              /\ runq' = Tail(runq)
  /\ UNCHANGED <<cfg, fileVer, epoch, snap, srcH, _sourceAssets, _build, calls,
                 written>>

\* build, second function of the waterfall: the composite asset is made
\* and the linker called; a linker that is not set is called all the same.
\* SimpleMergeLinker starts _expandDependencies(context, [], [], asset.assets).
Linker ==
  /\ runq # <<>>
  /\ Head(runq).k = "link"
  /\ LET b == Head(runq).w.a
     IN  IF ~cfg.linker
           THEN Throw(b, "TypeError")
           ELSE /\ bldH' = [bldH EXCEPT ![b].st = "link", ![b].linked = @ + 1,
                                        ![b].stack = <<Frame(bldH[b].roots)>>]
                /\ runq' = <<T("iter", "", W("build", b, 0), "none", 0)>>
                              \o Tail(runq)
  /\ UNCHANGED <<cfg, fileVer, epoch, snap, srcH, _sourceAssets, _build, calls,
                 written>>

\* A join without the separator.
RECURSIVE JoinBodiesPlain(_)
JoinBodiesPlain(assets) ==
  IF assets = <<>> THEN ""
  ELSE srcH[assets[1]].body \o JoinBodiesPlain(Tail(assets))

\* expanded.map(function(asset) { return asset.body; }).join("\n")
RECURSIVE JoinBodies(_)
JoinBodies(assets) ==
  IF assets = <<>> THEN ""
  ELSE IF Len(assets) = 1 THEN srcH[assets[1]].body
  ELSE srcH[assets[1]].body \o "\n" \o JoinBodies(Tail(assets))

\* A walk that forgets what it has seen.
SeenNever(seen, asset) == FALSE

\* seen.indexOf(asset) >= 0
Seen(seen, asset) == asset \in Range(seen)

\* "return;" for an asset that was seen, next() forgotten.
SkipSeenNoNext(b, rest) == rest

\* "return next()" for an asset that was seen: the walk of the list goes on
\* in the same callback.
SkipSeen(b, rest) == <<T("iter", "", W("build", b, 0), "none", 0)>> \o rest

\* _expandDependencies: one step of ASYNC.forEachSeries over the list of the
\* innermost call.  At the end of the list its callback runs: for an inner
\* call the asset whose dependencies were walked is appended and the outer
\* list goes on; for the outermost call it is the callback of
\* SimpleMergeLinker, which sets the body and calls done().  An asset that
\* is undefined has no dependencies to read: a TypeError.
_expandDependencies ==
  /\ runq # <<>>
  /\ Head(runq).k = "iter"
  /\ LET b == Head(runq).w.a
         h == bldH[b]
         top == Len(h.stack)
         f == h.stack[top]
         asset == f.assets[f.i + 1]
         next == [h.stack EXCEPT ![top].i = @ + 1]
     IN  IF f.i = Len(f.assets) /\ top = 1
           THEN /\ bldH' = [bldH EXCEPT ![b].stack = <<>>,
                                        ![b].body = JoinBodies(h.expanded)]
                /\ runq' = <<T("minify", "", W("build", b, 0), "none", 0)>>
                              \o Tail(runq)
         ELSE IF f.i = Len(f.assets)
           THEN LET g == h.stack[top - 1]
                IN  /\ bldH' = [bldH EXCEPT
                          ![b].expanded = Append(@, g.assets[g.i + 1]),
                          ![b].stack = [SubSeq(h.stack, 1, top - 1) EXCEPT
                                          ![top - 1].i = @ + 1,
                                          ![top - 1].res = <<>>]]
                    /\ runq' = runq
         ELSE IF asset = 0
           THEN Throw(b, "TypeError")
         ELSE IF Seen(h.seen, asset)
           THEN /\ bldH' = [bldH EXCEPT ![b].stack = next]
                /\ runq' = SkipSeen(b, Tail(runq))
         ELSE IF Len(srcH[asset].deps) = 0
           THEN /\ bldH' = [bldH EXCEPT ![b].seen = Append(@, asset),
                                        ![b].expanded = Append(@, asset),
                                        ![b].stack = next]
                /\ runq' = runq
         ELSE /\ bldH' = [bldH EXCEPT ![b].seen = Append(@, asset),
                                      ![b].gets = @ + 1]
              /\ runq' = <<T("get", srcH[asset].deps[1], W("dep", b, 0), "none", 0)>>
                            \o Tail(runq)
  /\ UNCHANGED <<cfg, fileVer, epoch, snap, srcH, _sourceAssets, _build, calls,
                 written>>

\* _expandDependencies: ASYNC.mapSeries over asset.dependencies is handed
\* the source asset of a dependency, or its error.  The results so far hold
\* undefined for a dependency that failed.  After the last dependency, or
\* after the first error, the callback of mapSeries runs: it does not look
\* at err and walks the results.
DependencyDone ==
  /\ runq # <<>>
  /\ Head(runq).k = "cb"
  /\ Head(runq).w.k = "dep"
  /\ LET t == Head(runq)
         b == t.w.a
         h == bldH[b]
         top == Len(h.stack)
         f == h.stack[top]
         deps == srcH[f.assets[f.i + 1]].deps
         res == Append(f.res, IF t.err = "none" THEN t.val ELSE 0)
     IN  IF t.err # "none" \/ Len(res) = Len(deps)
           THEN /\ bldH' = [bldH EXCEPT ![b].stack = Append(@, Frame(res)),
                                        ![b].depErr =
                                          IF @ = "none" THEN t.err ELSE @,
                                        ![b].errAt =
                                          IF h.depErr = "none" /\ t.err # "none"
                                            THEN <<Len(h.expanded), h.gets>>
                                            ELSE @]
                /\ runq' = <<T("iter", "", W("build", b, 0), "none", 0)>>
                              \o Tail(runq)
           ELSE /\ bldH' = [bldH EXCEPT ![b].stack[top].res = res,
                                        ![b].gets = @ + 1]
                /\ runq' = <<T("get", deps[Len(res) + 1], t.w, "none", 0)>>
                              \o Tail(runq)
  /\ UNCHANGED <<cfg, fileVer, epoch, snap, srcH, _sourceAssets, _build, calls,
                 written>>

\* build, third function of the waterfall, and the end of the waterfall:
\* with minify set the minifier is called, set or not (UglifyMinifier calls
\* done() and leaves the body); then done(null, asset).  The waterfall has
\* no function after this one: postprocessors is read from the
\* configuration and no postprocessor is called.
Minifier ==
  /\ runq # <<>>
  /\ Head(runq).k = "minify"
  /\ LET b == Head(runq).w.a
     IN  IF cfg.minify /\ ~cfg.minifier
           THEN Throw(b, "TypeError")
           ELSE SettleBuild(b, [bldH EXCEPT ![b].minified =
                                   IF cfg.minify THEN @ + 1 ELSE @], "none")
  /\ UNCHANGED <<cfg, fileVer, epoch, snap, srcH, _sourceAssets, _build, calls,
                 written>>

\* write: the callback it gave to build.  An error goes to done; otherwise
\* FS.writeFile is called with the body.
WriteCallback ==
  /\ runq # <<>>
  /\ Head(runq).k = "cb"
  /\ Head(runq).w.k = "write"
  /\ LET t == Head(runq)
         c == t.w.a
     IN  IF t.err # "none"
           THEN calls' = Called(c, t.err, 0)
           ELSE calls' = [calls EXCEPT ![c].st = "writing", ![c].val = t.val]
  /\ runq' = Tail(runq)
  /\ UNCHANGED <<cfg, fileVer, epoch, snap, srcH, _sourceAssets, bldH, _build,
                 written>>

\* write: FS.writeFile completes and calls done.
WriteFileDone(c) ==
  /\ runq = <<>>
  /\ calls[c].st = "writing"
  /\ \E ok \in IoOutcomes :
       IF ok
         THEN /\ written' = Append(written, [path |-> calls[c].arg,
                                             body |-> bldH[calls[c].val].body])
              /\ calls' = Called(c, "none", calls[c].val)
         ELSE /\ written' = written
              /\ calls' = Called(c, "WriteFailed", calls[c].val)
  /\ UNCHANGED <<cfg, fileVer, epoch, snap, srcH, _sourceAssets, bldH, _build,
                 runq>>

\* ------------------------------------------------------- specifications
Healthy(main, requires) ==
  Config(main, TRUE, FALSE, FALSE, TRUE, requires, FALSE)

\* The configurations of the main specification: sound ones over several
\* graphs, ones that lack main, the linker, the minifier, the analyzer, a
\* compiler for a file, or a file for a module, and one with postprocessors.
Configs ==
  {Config(Str("./a"), TRUE, TRUE, TRUE, TRUE, Chain, TRUE),
   Healthy(Str("./a"), Diamond),
   Healthy(Arr(<<"./a", "./c">>), Cyclic),
   Healthy(Str("./a"), NeedsCss),
   Healthy(Str("./a"), NeedsMissing),
   Healthy(Arr(<<"./x.css", "./a">>), Chain),
   Healthy(Arr(<<"./a", "./m">>), Chain),
   Healthy(Arr(<<>>), Chain),
   Config(Unset, TRUE, FALSE, FALSE, TRUE, Chain, FALSE),
   Config(Str("./a"), FALSE, FALSE, FALSE, TRUE, Chain, FALSE),
   Config(Str("./a"), TRUE, TRUE, FALSE, TRUE, Chain, FALSE),
   Config(Str("./a"), TRUE, FALSE, FALSE, FALSE, Chain, FALSE),
   WithPostprocessors(Config(Str("./d"), TRUE, TRUE, TRUE, TRUE, NoDeps, FALSE),
                      <<"p1", "p2">>)}

InitWith(configs) ==
  /\ cfg \in configs
  /\ fileVer = [p \in Paths |-> 0]
  /\ epoch = 0
  /\ snap = <<>>
  /\ srcH = <<>>
  /\ _sourceAssets = [p \in Paths |-> 0]
  /\ bldH = <<>>
  /\ _build = 0
  /\ runq = <<>>
  /\ calls = <<>>
  /\ written = <<>>

Init == InitWith(Configs)

\* The steps of the callback that is running.
Run ==
  \/ GetSourceAsset
  \/ JavaScriptAnalyzer
  \/ UserCallback
  \/ AsyncMap
  \/ MapIterator
  \/ RootDone
  \/ Linker
  \/ _expandDependencies
  \/ DependencyDone
  \/ Minifier
  \/ WriteCallback

\* The completions of file reads and writes.
Io ==
  \/ \E h \in 1..Len(srcH) : JavaScriptCompiler(h)
  \/ \E c \in 1..Len(calls) : WriteFileDone(c)

Next ==
  \/ Run
  \/ Io
  \/ \E raw \in RawPaths : CallGetSourceAsset(raw)
  \/ CallBuild
  \/ \E out \in {"", "/out.js"} : CallWrite(out)
  \/ Invalidate
  \/ \E p \in Editable : EditFile(p)

Spec == Init /\ [][Next]_vars

\* ------------------------------------------------------------ the claims
\* The handles made for path p between invalidate() number e and the next.
SourcesOf(p, e) ==
  {h \in 1..Len(srcH) : srcH[h].path = p /\ srcH[h].epoch = e}

CompilerCalls(p, e) == Cardinality({h \in SourcesOf(p, e) : srcH[h].compiled})
AnalyzerCalls(p, e) == Cardinality({h \in SourcesOf(p, e) : srcH[h].analyzed})

\* The getSourceAsset calls of users for path p in that time.
GetCalls(p, e) ==
  {c \in 1..Len(calls) :
     calls[c].op = "get" /\ PATH_resolve(calls[c].arg) = p /\ calls[c].epoch = e}

\* The build handles made in that time, and the build() and write() calls.
BuildsOf(e) == {b \in 1..Len(bldH) : bldH[b].epoch = e}
BuildCalls(e) ==
  {c \in 1..Len(calls) : calls[c].op \in {"build", "write"} /\ calls[c].epoch = e}

RECURSIVE Sum(_, _)
Sum(f, S) ==
  IF S = {} THEN 0
  ELSE LET x == CHOOSE y \in S : TRUE IN f[x] + Sum(f, S \ {x})

LinkerCalls(e) == Sum([b \in 1..Len(bldH) |-> bldH[b].linked], BuildsOf(e))
MinifierCalls(e) == Sum([b \in 1..Len(bldH) |-> bldH[b].minified], BuildsOf(e))

\* The call's callback was handed an asset.
GotAsset(c) == calls[c].val # 0 /\ calls[c].st \in {"done", "writing"}

\* C1: between two invalidate() calls the compiler and the analyzer are
\* called at most once for a path, however many getSourceAsset calls are
\* made for it and whether they come before or after the computation
\* settles; every callback that is handed an asset is called once, after
\* one call of the compiler and one of the analyzer, and all of them are
\* handed the same asset object.
C1_CompiledOnce ==
  \A p \in Paths, e \in 0..epoch :
    /\ CompilerCalls(p, e) <= 1
    /\ AnalyzerCalls(p, e) <= 1
    /\ \A c \in GetCalls(p, e) :
         GotAsset(c) =>
           /\ calls[c].n = 1
           /\ CompilerCalls(p, e) = 1
           /\ AnalyzerCalls(p, e) = 1
           /\ srcH[calls[c].val].path = p
           /\ \A d \in GetCalls(p, e) : GotAsset(d) => calls[d].val = calls[c].val

\* Two calls for one path, written in two ways, were handed the same asset.
C1_Witness ==
  /\ Len(calls) = 2
  /\ calls[1].op = "get" /\ calls[2].op = "get"
  /\ calls[1].arg = "/d.js" /\ calls[2].arg = "./d.js"
  /\ calls[1].epoch = calls[2].epoch
  /\ GotAsset(1) /\ GotAsset(2)
  /\ calls[1].val = calls[2].val
  /\ srcH[calls[1].val].waiters = <<>>

\* C2: between two invalidate() calls the pipeline runs once, however many
\* build() and write() calls are made: the linker is called at most once
\* and the minifier at most once; every callback that is handed a composite
\* asset is handed the same one, after one call of the linker and, with
\* minify set, one call of the minifier.
C2_BuiltOnce ==
  \A e \in 0..epoch :
    /\ LinkerCalls(e) <= 1
    /\ MinifierCalls(e) <= 1
    /\ \A c \in BuildCalls(e) :
         GotAsset(c) =>
           /\ LinkerCalls(e) = 1
           /\ MinifierCalls(e) = (IF cfg.minify THEN 1 ELSE 0)
           /\ bldH[calls[c].val].epoch = e
           /\ \A d \in BuildCalls(e) : GotAsset(d) => calls[d].val = calls[c].val

\* Two build() calls with minify set were handed the same composite asset.
C2_Witness ==
  /\ Len(calls) = 2
  /\ calls[1].op = "build" /\ calls[2].op = "build"
  /\ calls[1].epoch = calls[2].epoch
  /\ cfg.minify
  /\ GotAsset(1) /\ GotAsset(2)
  /\ calls[1].val = calls[2].val
  /\ calls[1].n = 1 /\ calls[2].n = 1

\* C5: a build made after an invalidate() that settles with a composite
\* asset has called the linker, and every source asset of its body was made
\* after that invalidate(): compiled and analyzed after it, with the text
\* the file had at the invalidate() or a later one.
C5_RebuiltAfterInvalidate ==
  \A b \in 1..Len(bldH) :
    (bldH[b].st = "ok" /\ bldH[b].epoch >= 1) =>
      /\ bldH[b].linked = 1
      /\ bldH[b].body = JoinBodies(bldH[b].expanded)
      /\ \A i \in 1..Len(bldH[b].expanded) :
           LET a == srcH[bldH[b].expanded[i]]
           IN  /\ a.epoch >= bldH[b].epoch
               /\ a.compiled /\ a.analyzed
               /\ a.ver >= snap[bldH[b].epoch][a.path]
               /\ a.body = Content(a.path, a.ver)

\* A file was built, edited, and built again after invalidate(): the second
\* body has the new text.
C5_Witness ==
  /\ Len(bldH) = 2
  /\ bldH[1].st = "ok" /\ bldH[2].st = "ok"
  /\ bldH[2].epoch = 1
  /\ snap[1]["/d.js"] = 1
  /\ bldH[1].body = "d;\n//= require ./d\na;"
  /\ bldH[2].body = "d';\n//= require ./d\na;"

\* C6: a handle that settled with an error is the only one made for its
\* path (or for the build) until the next invalidate(), so nothing is
\* compiled, analyzed or linked again, and every callback of a call made in
\* that time is handed that error.
C6_ErrorsCached ==
  /\ \A h \in 1..Len(srcH) :
       srcH[h].st = "err" =>
         /\ SourcesOf(srcH[h].path, srcH[h].epoch) = {h}
         /\ \A c \in GetCalls(srcH[h].path, srcH[h].epoch) :
              calls[c].st = "done" =>
                /\ calls[c].err = srcH[h].err
                /\ calls[c].val = 0
                /\ calls[c].n = 1
  /\ \A b \in 1..Len(bldH) :
       bldH[b].st = "err" =>
         /\ BuildsOf(bldH[b].epoch) = {b}
         /\ bldH[b].linked = 0
         /\ \A c \in BuildCalls(bldH[b].epoch) :
              calls[c].st = "done" =>
                /\ calls[c].err = bldH[b].err
                /\ calls[c].n = 1

\* A build failed on a file that could not be read, and a later
\* getSourceAsset call for the file was handed the same error without a
\* second read.
C6_Witness ==
  /\ Len(calls) = 2
  /\ calls[1].op = "build" /\ calls[2].op = "get"
  /\ calls[1].st = "done" /\ calls[2].st = "done"
  /\ calls[1].err = "ReadFailed" /\ calls[2].err = "ReadFailed"
  /\ calls[1].epoch = calls[2].epoch
  /\ bldH[1].st = "err"
  /\ CompilerCalls(PATH_resolve(calls[2].arg), calls[2].epoch) = 1

\* The function of build b has come to its end: it called done or an
\* exception left it.
Stopped(b) == OnceSettled(bldH[b]) \/ bldH[b].threw # "none"

\* C7: with main not set, or the linker not set, or minify set and the
\* minifier not set, build requests no source asset, calls neither linker
\* nor minifier, and hands its callback the configuration error.
C7_ConfigValidated ==
  BuildConfigError # "none" =>
    /\ \A b \in 1..Len(bldH) :
         /\ bldH[b].gets = 0
         /\ bldH[b].linked = 0
         /\ bldH[b].minified = 0
         /\ bldH[b].threw = "none"
    /\ \A c \in 1..Len(calls) :
         (calls[c].op = "build" /\ calls[c].st = "done") =>
           calls[c].err = BuildConfigError

\* C8: with minify set and no minifier, a build that has come to its end
\* has handed the configuration error to the callbacks of build() and
\* write(), and no file is written.
C8_MinifierMissing ==
  (cfg.minify /\ ~cfg.minifier) =>
    /\ written = <<>>
    /\ \A b \in 1..Len(bldH) :
         (runq = <<>> /\ Stopped(b)) =>
           \A c \in BuildCalls(bldH[b].epoch) :
             calls[c].st = "done" /\ calls[c].err = "NoMinifier"

\* C9: a build that was handed the error of a file without a compiler, for
\* a root or for a dependency, settles with that error and hands it to its
\* callers; the file is neither compiled nor analyzed and nothing is
\* written.
C9_NoCompilerFailsBuild ==
  /\ \A h \in 1..Len(srcH) :
       srcH[h].err = "NoCompiler" => ~srcH[h].compiled /\ ~srcH[h].analyzed
  /\ \A b \in 1..Len(bldH) :
       (runq = <<>> /\ "NoCompiler" \in {bldH[b].rootErr, bldH[b].depErr}) =>
         /\ bldH[b].st = "err"
         /\ bldH[b].err = "NoCompiler"
         /\ bldH[b].threw = "none"
         /\ \A c \in 1..Len(calls) : calls[c].val = b => calls[c].op # "write"

\* C10: once the walk is handed an error for a dependency, nothing more is
\* appended or requested, no exception is thrown, and the linker and the
\* build hand that error to their callbacks.
C10_WalkAborts ==
  \A b \in 1..Len(bldH) :
    bldH[b].depErr # "none" =>
      /\ Len(bldH[b].expanded) = bldH[b].errAt[1]
      /\ bldH[b].gets = bldH[b].errAt[2]
      /\ bldH[b].threw = "none"
      /\ runq = <<>> => (bldH[b].st = "err" /\ bldH[b].err = bldH[b].depErr)

\* ------------------------------------------------ the closure of a graph
\* A second specification for the dependency walk alone: one build() of a
\* sound configuration, over every graph of require lines among three
\* modules and over the diamond, from every list of roots; files are read
\* without errors and nothing is invalidated.
MaxDeps == 2
MaxRoots == 2

Modules == {"./a", "./b", "./c"}

\* The lists of at most n different elements of S.
DistinctSeqs(S, n) ==
  {s \in UNION {[1..k -> S] : k \in 0..n} :
     \A i, j \in 1..Len(s) : i # j => s[i] # s[j]}

DepLists == DistinctSeqs(Modules, MaxDeps)
RootLists == DistinctSeqs(Modules, MaxRoots) \ {<<>>}

Graphs ==
  {[NoDeps EXCEPT !["/a.js"] = da, !["/b.js"] = db, !["/c.js"] = dc] :
     da \in DepLists, db \in DepLists, dc \in DepLists} \cup {Diamond}

GraphConfigs == {Healthy(Arr(r), g) : r \in RootLists, g \in Graphs}

InitG == InitWith(GraphConfigs)

\* The one build() of the behaviour.
StartBuild ==
  /\ calls = <<>>
  /\ CallBuild

RunG ==
  \/ GetSourceAsset
  \/ JavaScriptAnalyzer
  \/ UserCallback
  \/ AsyncMap
  \/ MapIterator
  \/ RootDone
  \/ Linker
  \/ _expandDependencies
  \/ DependencyDone
  \/ Minifier

ReadG == \E h \in 1..Len(srcH) : JavaScriptCompiler(h)

NextG ==
  \/ StartBuild
  \/ RunG
  \/ ReadG

\* The event loop runs the callback in progress to its end, and a file read
\* that was started completes.
SpecG == InitG /\ [][NextG]_vars /\ WF_vars(RunG) /\ WF_vars(ReadG)

\* The paths a file's require lines resolve to.
DepPaths(p) ==
  [i \in 1..Len(cfg.requires[p]) |-> resolve(cfg.requires[p][i])]

\* The paths reachable from the paths of S along require lines.
RECURSIVE Reach(_)
Reach(S) ==
  LET more == S \cup UNION {Range(DepPaths(p)) : p \in S}
  IN  IF more = S THEN S ELSE Reach(more)

\* No file requires itself, directly or through others.
Acyclic == \A p \in Paths : p \notin Reach(Range(DepPaths(p)))

\* The left-to-right depth-first walk that lists every path after the paths
\* it requires (for an acyclic graph).
RECURSIVE PostOrder(_, _)
PostOrder(list, out) ==
  IF list = <<>> THEN out
  ELSE IF Head(list) \in Range(out) THEN PostOrder(Tail(list), out)
  ELSE PostOrder(Tail(list),
                 Append(PostOrder(DepPaths(Head(list)), out), Head(list)))

RootPaths == [i \in 1..Len(MainList) |-> resolve(MainList[i])]

\* The paths of the assets a build has linked, in the order of its body.
Order(b) == [i \in 1..Len(bldH[b].expanded) |-> srcH[bldH[b].expanded[i]].path]

\* The linker of build b has called back.
Linked(b) == bldH[b].linked > 0 /\ bldH[b].stack = <<>>

\* The number of require lines of the files of S.
RECURSIVE RequireLines(_)
RequireLines(S) ==
  IF S = {} THEN 0
  ELSE LET p == CHOOSE q \in S : TRUE
       IN  Len(DepPaths(p)) + RequireLines(S \ {p})

\* C3: for an acyclic graph and any list of roots, the sequence the walk
\* yields holds every path reachable from the roots, each exactly once,
\* every path after all the paths it requires directly or through others,
\* in the order of the left-to-right depth-first walk; for the diamond with
\* root a it is d, b, c, a.
C3_ClosureOrder ==
  \A b \in 1..Len(bldH) :
    (Acyclic /\ Linked(b)) =>
      LET order == Order(b)
      IN  /\ Range(order) = Reach(Range(RootPaths))
          /\ \A i, j \in 1..Len(order) : i # j => order[i] # order[j]
          /\ \A i, j \in 1..Len(order) :
                order[j] \in Reach(Range(DepPaths(order[i]))) => j < i
          /\ order = PostOrder(RootPaths, <<>>)
          /\ (cfg.requires = Diamond /\ MainList = <<"./a">>) =>
                order = <<"/d.js", "/b.js", "/c.js", "/a.js">>

\* The diamond has been walked from root a.
C3_Witness ==
  \E b \in 1..Len(bldH) :
    /\ Linked(b)
    /\ cfg.requires = Diamond
    /\ MainList = <<"./a">>
    /\ Order(b) = <<"/d.js", "/b.js", "/c.js", "/a.js">>

\* The linker of the behaviour's build has been called.
WalkStarted == IF bldH = <<>> THEN FALSE ELSE bldH[1].linked > 0

\* Its callback has been called and the build has settled without an error.
WalkEnded ==
  IF bldH = <<>> THEN FALSE
  ELSE Linked(1) /\ bldH[1].st = "ok" /\ bldH[1].threw = "none"

\* C4: in a graph with a file that requires itself, directly or through
\* others, the walk ends: once the linker is called its callback is
\* called, the build settles without an error and no exception, and no
\* more getSourceAsset calls are made for it than there are roots and
\* require lines.
C4_CycleTerminates ==
  /\ [](\A b \in 1..Len(bldH) :
          ~Acyclic =>
            bldH[b].gets <= Len(MainList) + RequireLines(Reach(Range(RootPaths))))
  /\ (~Acyclic /\ WalkStarted) ~> WalkEnded

\* A graph with a cycle has been walked to the end.
C4_Witness ==
  /\ ~Acyclic
  /\ Len(bldH) = 1
  /\ Linked(1)
  /\ bldH[1].st = "ok"
  /\ \E p \in Range(Order(1)) : p \in Reach(Range(DepPaths(p)))

\* ------------------------------------------------- write and the pipeline
\* The build handle a build() or write() call was attached to: the one made
\* between the same two invalidate() calls.
BuildOf(c) == CHOOSE b \in 1..Len(bldH) : bldH[b].epoch = calls[c].epoch

\* A stage of build b failed: a root or a dependency was handed an error, or
\* an exception was thrown.
Failed(b) ==
  bldH[b].rootErr # "none" \/ bldH[b].depErr # "none" \/ bldH[b].threw # "none"

\* The first error of a failed build.
FirstError(b) ==
  IF bldH[b].rootErr # "none" THEN bldH[b].rootErr
  ELSE IF bldH[b].depErr # "none" THEN bldH[b].depErr
  ELSE bldH[b].threw

\* C11: a file is written only for a write() whose build settled without
\* an error in any stage, and with the body of that build; with main, the
\* linker and the minifier configured as build needs them, a write() whose
\* build failed in some stage (a root that does not resolve, a compile or
\* analyze error of a root or of a dependency) has its callback handed the
\* first error, once, when the running callback is over.
C11_WriteAfterCleanBuild ==
  /\ \A i \in 1..Len(written) :
       \E c \in 1..Len(calls) :
         /\ calls[c].op = "write"
         /\ calls[c].arg = written[i].path
         /\ bldH[BuildOf(c)].st = "ok"
         /\ ~Failed(BuildOf(c))
         /\ written[i].body = bldH[BuildOf(c)].body
  /\ \A c \in 1..Len(calls) :
       calls[c].op = "write" =>
         /\ calls[c].st = "writing" =>
              bldH[BuildOf(c)].st = "ok" /\ ~Failed(BuildOf(c))
         /\ (BuildConfigError = "none" /\ Failed(BuildOf(c)) /\ runq = <<>>) =>
              /\ calls[c].st = "done"
              /\ calls[c].n = 1
              /\ calls[c].err = FirstError(BuildOf(c))

\* C12: a build that settles with a composite asset has called every
\* configured postprocessor once, in the order of the configuration, before
\* its callbacks run.
C12_PostprocessorsRun ==
  \A b \in 1..Len(bldH) :
    bldH[b].st = "ok" => bldH[b].post = cfg.postprocessors

\* ------------------------------------------------------- the merged body
\* A file that requires one other file.
Pair == [NoDeps EXCEPT !["/a.js"] = <<"./b">>]

\* The texts of the files of a list of paths, none of them edited.
Bodies(order) == [i \in 1..Len(order) |-> Content(order[i], 0)]

\* Lines with one newline between each two, built from the last line back.
RECURSIVE Joined(_)
Joined(lines) ==
  IF lines = <<>> THEN ""
  ELSE IF Len(lines) = 1 THEN lines[1]
  ELSE Joined(SubSeq(lines, 1, Len(lines) - 1)) \o "\n" \o lines[Len(lines)]

SpecF == Init /\ [][Next]_vars /\ WF_vars(Run) /\ WF_vars(Io)

\* Call c was made before an invalidate().
Stale(c) == IF c > Len(calls) THEN FALSE ELSE calls[c].epoch < epoch

\* The callback of call c has been called.
Answered(c) == IF c > Len(calls) THEN FALSE ELSE calls[c].st = "done"

\* An exception has left the function of some build.
AnyThrow == \E b \in 1..Len(bldH) : bldH[b].threw # "none"

\* What the callback of call c was handed is the result of the computation
\* that was in the cache when the call was made.
OwnResult(c) ==
  IF calls[c].op = "get"
    THEN IF calls[c].err = "none"
           THEN /\ calls[c].val \in SourcesOf(PATH_resolve(calls[c].arg), calls[c].epoch)
                /\ srcH[calls[c].val].st = "ok"
           ELSE \E h \in SourcesOf(PATH_resolve(calls[c].arg), calls[c].epoch) :
                  srcH[h].st = "err" /\ srcH[h].err = calls[c].err
  ELSE IF calls[c].err \in {"none", "WriteFailed"}
    THEN calls[c].val = BuildOf(c) /\ bldH[BuildOf(c)].st = "ok"
  ELSE bldH[BuildOf(c)].st = "err" /\ bldH[BuildOf(c)].err = calls[c].err

\* C14: the callback of a call made before an invalidate() is called at
\* most once, with the result of the computation the call started or joined
\* before the invalidate(); and it is called: a call that an invalidate()
\* has followed is answered, unless an exception has left a build.
C14_InFlightSurvives ==
  /\ [](\A c \in 1..Len(calls) :
          Stale(c) => /\ calls[c].n <= 1
                      /\ Answered(c) => calls[c].n = 1 /\ OwnResult(c))
  /\ \A c \in 1..MaxCalls : Stale(c) ~> (Answered(c) \/ AnyThrow)

\* A getSourceAsset call and a build were waiting for the read of a file
\* when invalidate() was called; the file was edited after that, and both
\* callbacks were handed the asset made from the read that was in flight.
C14_Witness ==
  /\ Len(calls) = 2
  /\ calls[1].op = "get" /\ calls[2].op = "build"
  /\ calls[1].epoch = 0 /\ calls[2].epoch = 0
  /\ epoch = 1
  /\ snap[1]["/d.js"] = 0
  /\ GotAsset(1) /\ GotAsset(2)
  /\ calls[1].n = 1 /\ calls[2].n = 1
  /\ srcH[calls[1].val].epoch = 0
  /\ srcH[calls[1].val].ver = 1
  /\ bldH[calls[2].val].epoch = 0
  /\ calls[1].val \in Range(bldH[calls[2].val].expanded)

\* ------------------------------------------------- the order of the roots
\* C15: the result ASYNC.map keeps for entry i of main is the source asset
\* of the path that entry resolves to, whatever the order the roots settle
\* in; the linker is called with one asset for every entry, in that order.
C15_RootsInMainOrder ==
  \A b \in 1..Len(bldH) :
    /\ \A i \in 1..Len(bldH[b].roots) :
         bldH[b].roots[i] # 0 => srcH[bldH[b].roots[i]].path = RootPaths[i]
    /\ bldH[b].linked > 0 =>
         /\ Len(bldH[b].roots) = Len(MainList)
         /\ \A i \in 1..Len(MainList) :
              /\ bldH[b].roots[i] # 0
              /\ srcH[bldH[b].roots[i]].path = RootPaths[i]

\* The second of two roots has settled and the first has not: its asset is
\* kept at index 2.
C15_Witness ==
  \E b \in 1..Len(bldH) :
    /\ Len(MainList) = 2
    /\ Len(bldH[b].roots) = 2
    /\ bldH[b].roots[1] = 0
    /\ bldH[b].roots[2] # 0
    /\ srcH[bldH[b].roots[2]].path = RootPaths[2]
    /\ \E h \in 1..Len(srcH) :
         srcH[h].path = RootPaths[1] /\ srcH[h].st = "compiling"

\* ------------------------------------------------ every build calls back
\* Nothing is running and nothing is in flight: no callback in progress, no
\* file being read or written.
Quiet ==
  /\ runq = <<>>
  /\ \A h \in 1..Len(srcH) : srcH[h].st # "compiling"
  /\ \A c \in 1..Len(calls) : calls[c].st # "writing"

\* C16: the callback of a build() call is called at most once, and when
\* nothing is running and nothing is in flight any more it has been called,
\* with a composite asset or with an error, whatever the graph and the
\* configuration: without linker, without minifier, with an entry of main
\* that does not resolve.  (Stated for main set: what ASYNC.map does with
\* an undefined list differs between versions of the library.)
C16_BuildCallsBack ==
  \A c \in 1..Len(calls) :
    (calls[c].op = "build" /\ cfg.main.kind # "unset") =>
      /\ calls[c].n <= 1
      /\ Quiet => /\ calls[c].st = "done"
                  /\ calls[c].n = 1
                  /\ (calls[c].err = "none") = (calls[c].val # 0)

\* --------------------------------------------------- the order of stages
\* The minifier is about to be called for build b: the linker has just
\* called back and the third function of the waterfall has not run yet.
MinifyNext(b) ==
  /\ runq # <<>>
  /\ Head(runq).k = "minify"
  /\ Head(runq).w.a = b

\* C17: a file is analyzed only once its compiler has called back without
\* an error, and a file without compiler or analyzer is not compiled; the
\* linker is called only once the map over main is done, every root settled
\* with its asset, and not after an error of a root; with a minifier
\* configured, the minifier is called only with minify set and after the
\* linker called back without an error, and it is called once the linker
\* has: a build whose linker was handed an error of a dependency calls no
\* minifier.
C17_StagesInOrder ==
  /\ \A h \in 1..Len(srcH) :
       /\ srcH[h].analyzed =>
            /\ srcH[h].compiled
            /\ srcH[h].st \in {"analyzing", "ok", "err"}
            /\ srcH[h].err # "ReadFailed"
            /\ srcH[h].body = Content(srcH[h].path, srcH[h].ver)
       /\ srcH[h].st = "compiling" => srcH[h].compiled /\ ~srcH[h].analyzed
       /\ srcH[h].err = "ReadFailed" => srcH[h].compiled /\ ~srcH[h].analyzed
       /\ srcH[h].err \in {"NoCompiler", "NoAnalyzer"} =>
            ~srcH[h].compiled /\ ~srcH[h].analyzed
  /\ \A b \in 1..Len(bldH) :
       /\ bldH[b].linked > 0 =>
            /\ bldH[b].linked = 1
            /\ bldH[b].mapDone
            /\ bldH[b].rootErr = "none"
            /\ Len(bldH[b].roots) = Len(MainList)
            /\ \A i \in 1..Len(bldH[b].roots) :
                 /\ bldH[b].roots[i] # 0
                 /\ srcH[bldH[b].roots[i]].st = "ok"
       /\ bldH[b].rootErr # "none" => bldH[b].linked = 0 /\ bldH[b].minified = 0
       /\ bldH[b].minified > 0 =>
            /\ bldH[b].minified = 1
            /\ cfg.minify
            /\ Linked(b)
            /\ bldH[b].depErr = "none"
       /\ bldH[b].depErr # "none" => bldH[b].minified = 0
       /\ (cfg.minifier /\ Linked(b) /\ ~MinifyNext(b)) =>
            bldH[b].minified = (IF cfg.minify THEN 1 ELSE 0)

\* A build failed on a file that could not be read, before the linker; after
\* invalidate() the next one ran linker and minifier, once each.
C17_Witness ==
  /\ Len(bldH) = 2
  /\ cfg.minify
  /\ bldH[1].st = "err" /\ bldH[1].rootErr = "ReadFailed"
  /\ bldH[1].linked = 0 /\ bldH[1].minified = 0
  /\ bldH[2].st = "ok"
  /\ bldH[2].linked = 1 /\ bldH[2].minified = 1
  /\ \E h \in 1..Len(srcH) : srcH[h].err = "ReadFailed" /\ ~srcH[h].analyzed

\* ------------------------------------------------- the life of an entry
\* The entries of both caches are all gone.
CachesEmpty(sources, build) == build = 0 /\ \A p \in Paths : sources[p] = 0

\* What a source handle and a build handle call back with: the error, or
\* the asset with its fields.
SourceResult(h) == <<h.st, h.err, h.path, h.body, h.deps>>
BuildResult(b) == <<b.st, b.err, b.roots, b.body>>

\* C18: every entry of the two caches is a handle that is pending or
\* settled; in a step, a handle that has settled stays as it is, with its
\* asset or error, and a handle that is pending stays pending or settles;
\* an entry of a cache stays the same handle unless the step is an
\* invalidate(), which leaves both caches empty.
C18_EntriesSettleOnce ==
  [][/\ \A h \in 1..Len(srcH) :
          /\ srcH[h].st \in {"compiling", "analyzing", "ok", "err"}
          /\ Len(srcH') >= h
          /\ OnceSettled(srcH[h]) => SourceResult(srcH'[h]) = SourceResult(srcH[h])
          /\ srcH'[h].st # srcH[h].st =>
               OnceSettled(srcH'[h]) \/ srcH'[h].st = "analyzing"
     /\ \A b \in 1..Len(bldH) :
          /\ bldH[b].st \in {"roots", "link", "ok", "err"}
          /\ Len(bldH') >= b
          /\ OnceSettled(bldH[b]) => BuildResult(bldH'[b]) = BuildResult(bldH[b])
     /\ \A p \in Paths :
          /\ _sourceAssets[p] \in 0..Len(srcH)
          /\ _sourceAssets[p] # 0 => srcH[_sourceAssets[p]].path = p
          /\ (_sourceAssets[p] # 0 /\ _sourceAssets'[p] # _sourceAssets[p]) =>
               epoch' = epoch + 1 /\ CachesEmpty(_sourceAssets', _build')
     /\ _build \in 0..Len(bldH)
     /\ (_build # 0 /\ _build' # _build) =>
          epoch' = epoch + 1 /\ CachesEmpty(_sourceAssets', _build')
     /\ epoch' # epoch => CachesEmpty(_sourceAssets', _build')
    ]_vars

\* After an invalidate() both caches are empty, and the handles that had
\* settled before it, for a source asset and for the build, are as they were.
C18_Witness ==
  /\ epoch = 1
  /\ CachesEmpty(_sourceAssets, _build)
  /\ Len(bldH) = 1
  /\ bldH[1].st = "ok"
  /\ \E h \in 1..Len(srcH) : srcH[h].st = "ok"
  /\ \E h \in 1..Len(srcH) : srcH[h].st = "compiling"

\* --------------------------------------- old work and the fresh caches
\* The calls users made since the last invalidate().
CallsNow(ops) ==
  {c \in 1..Len(calls) : calls[c].op \in ops /\ calls[c].epoch = epoch}

\* C19, as stated: after an invalidate() both caches stay empty until a
\* user calls build(), write() or getSourceAsset again.
C19_FreshCachesStayEmpty ==
  (epoch >= 1 /\ CallsNow({"get", "build", "write"}) = {}) =>
    CachesEmpty(_sourceAssets, _build)

\* C19, amended: every entry of the caches is a handle made since the last
\* invalidate(); the build memo is empty until build() or write() is called
\* again, and that call makes a new handle, the one its callback is answered
\* from; an entry the source asset cache holds before any new call of a
\* user was made by a build in flight for a dependency it requested after
\* the invalidate().
C19_NoStaleEntries ==
  /\ _build # 0 => bldH[_build].epoch = epoch
  /\ \A p \in Paths :
       _sourceAssets[p] # 0 => srcH[_sourceAssets[p]].epoch = epoch
  /\ CallsNow({"build", "write"}) = {} => _build = 0
  /\ \A c \in 1..Len(calls) :
       calls[c].op \in {"build", "write"} =>
         /\ bldH[BuildOf(c)].epoch = calls[c].epoch
         /\ GotAsset(c) => calls[c].val = BuildOf(c)
  /\ (epoch >= 1 /\ CallsNow({"get", "build", "write"}) = {}) =>
       \A p \in Paths :
         _sourceAssets[p] # 0 =>
           \E b \in 1..Len(bldH) : bldH[b].epoch < epoch /\ bldH[b].gets > 0

\* A build was in flight at an invalidate() and settled after it; the
\* build() call made after that started a second build, while the first
\* had already put a dependency into the fresh source asset cache.
C19_Witness ==
  /\ epoch = 1
  /\ Len(bldH) = 2
  /\ bldH[1].epoch = 0 /\ bldH[1].st = "ok"
  /\ bldH[2].epoch = 1
  /\ _build = 2
  /\ Len(calls) = 2
  /\ calls[2].op = "build" /\ calls[2].epoch = 1
  /\ \E i \in 1..Len(bldH[1].expanded) : srcH[bldH[1].expanded[i]].epoch = 1

\* ------------------------------------------- one path twice in a body
\* C20: no path occurs twice in the sequence a linker has walked, with or
\* without an invalidate() during the walk.
C20_NoPathTwice ==
  \A b \in 1..Len(bldH) :
    Linked(b) =>
      \A i, j \in 1..Len(bldH[b].expanded) :
        i # j => Order(b)[i] # Order(b)[j]

TypeOK ==
  /\ epoch \in 0..MaxInvalidate
  /\ _build \in 0..Len(bldH)
  /\ \A p \in Paths : _sourceAssets[p] \in 0..Len(srcH)
  /\ Len(calls) <= MaxCalls

====
